---- MODULE Spec2Model ----
(***************************************************************************)
(* Model of youtube_transcript_extractor.py: the CLI entry, the identifier *)
(* parser, the caption selector with its interactive prompt, the           *)
(* download + speech-to-text fallback and persistence.                     *)
(*                                                                         *)
(* A Python str is a sequence of one-character strings.  The character     *)
(* "sup2" stands for U+00B2 (SUPERSCRIPT TWO): str.isdigit() accepts it,   *)
(* int() does not.  An Optional[str] is a record [none, str].              *)
(***************************************************************************)
EXTENDS Integers, Sequences, FiniteSets, TLC

\* ------------------------------------------------------------------ bounds
MaxTracks == 2     \* longest track list the captions service returns
MaxEntries == 2    \* longest list of timed entries a track's fetch() yields
MaxSegments == 2   \* longest list of segments the speech-to-text engine yields
MaxPrompts == 2    \* most prompt iterations that may end in "Try again"

\* ----------------------------------------------------- Python str helpers
NoneStr == [none |-> TRUE, str |-> <<>>]
Some(s) == [none |-> FALSE, str |-> s]

\* truthiness of an Optional[str]: None and "" are falsy
Truthy(o) == ~o.none /\ o.str # <<>>

\* str.isspace() for one character
IsSpace(c) == c \in {" ", "\t"}

RECURSIVE LStripWs(_)
LStripWs(s) == IF s # <<>> /\ IsSpace(Head(s)) THEN LStripWs(Tail(s)) ELSE s

RECURSIVE RStripWs(_)
RStripWs(s) ==
  IF s # <<>> /\ IsSpace(s[Len(s)]) THEN RStripWs(SubSeq(s, 1, Len(s) - 1)) ELSE s

\* str.strip(): every leading and trailing whitespace character is removed
Strip(s) == RStripWs(LStripWs(s))

\* str.lstrip(chars) for a single character
RECURSIVE LStripChar(_, _)
LStripChar(s, c) == IF s # <<>> /\ Head(s) = c THEN LStripChar(Tail(s), c) ELSE s

StartsWith(s, p) == Len(s) >= Len(p) /\ SubSeq(s, 1, Len(p)) = p

\* sep.join(parts)
RECURSIVE Join(_, _)
Join(sep, parts) ==
  IF parts = <<>> THEN <<>>
  ELSE IF Len(parts) = 1 THEN parts[1]
  ELSE parts[1] \o sep \o Join(sep, Tail(parts))

\* characters with Unicode property Decimal (int() reads them)
DecimalChars == {"0", "1", "2", "3", "5"}
\* characters str.isdigit() accepts: Decimal, and Digit such as superscripts
DigitChars == DecimalChars \cup {"sup2"}

DigitValue(c) ==
  CASE c = "0" -> 0 [] c = "1" -> 1 [] c = "2" -> 2 [] c = "3" -> 3 [] c = "5" -> 5

IsDigit(s) == s # <<>> /\ \A i \in 1..Len(s) : s[i] \in DigitChars

\* int(s) raises ValueError on a character that is no decimal digit
IntRaises(s) == s = <<>> \/ \E i \in 1..Len(s) : s[i] \notin DecimalChars

RECURSIVE IntOf(_)
IntOf(s) ==
  IF s = <<>> THEN 0
  ELSE 10 * IntOf(SubSeq(s, 1, Len(s) - 1)) + DigitValue(s[Len(s)])

\* ------------------------------------------------------------ input domains
IdA == <<"a", "b">>

\* a URL as urlparse() sees it: hostname (lower-cased, "None" when absent),
\* the values of the query's v parameters in order, and the path
Urls ==
  [hostname : {"www.youtube.com", "youtube.com"},
   query : {<<>>, << <<>> >>, << <<>>, IdA >>},
   path : {<<"/", "w">>}]
  \cup
  [hostname : {"youtu.be"},
   query : {<<>>},
   path : {<<>>, <<"/">>, <<"/", "/">>, <<"/", "a", "b">>}]
  \cup
  [hostname : {"m.youtube.com", "vimeo.com", "None"},
   query : {<<IdA>>},
   path : {<<"/", "a", "b">>}]

NoArg == [hostname |-> "NoArg", query |-> <<>>, path |-> <<>>]

LanguageCodes == {<<"e", "n">>, <<"e", "n", "-", "U", "S">>, <<"d", "e">>}
Tracks == [language_code : LanguageCodes, is_generated : BOOLEAN]

RECURSIVE SeqsUpTo(_, _)
SeqsUpTo(S, n) ==
  IF n = 0 THEN {<<>>}
  ELSE LET shorter == SeqsUpTo(S, n - 1)
       IN shorter \cup {Append(q, x) : q \in {r \in shorter : Len(r) = n - 1}, x \in S}

TrackLists == SeqsUpTo(Tracks, MaxTracks)

EntryTexts == {<<>>, <<"H", "i">>}
EntryLists == SeqsUpTo(EntryTexts, MaxEntries)

SegmentTexts == {<<" ">>, <<"F", "o", "o", " ">>, <<"b", "a", "r", " ">>}
SegmentLists == SeqsUpTo(SegmentTexts, MaxSegments)

EOF == <<"EOF">>
\* lines the operator may type at the prompt ("0", "abc", "5", "2", "1", "3",
\* " 2 ", "", superscript two), and end of input
Inputs ==
  {<<"0">>, <<"a", "b", "c">>, <<"5">>, <<"2">>, <<"1">>, <<"3">>,
   <<" ", "2", " ">>, <<>>, <<"sup2">>, EOF}

\* --------------------------------------------------------------- the state
VARIABLES
  pc,            \* position of the run
  youtube_url,   \* sys.argv[1]
  video_id,      \* __main__'s video_id
  available,     \* _get_official_captions: the collected tracks
  selected,      \* index into available of the selected track, 0 for None
  choice,        \* the line last read at the prompt
  prompts,       \* number of input() calls
  retries,       \* number of "Invalid choice. Try again." iterations
  entries,       \* texts of the entries fetch() returned
  fetched,       \* index of the track fetch() was called on, 0 for none
  transcript,    \* extract_text: result of _get_official_captions
  segments,      \* texts of the segments transcribe() returned
  text,          \* __main__'s text
  temp_dir,      \* "none" | "exists": the directory mkdtemp() made
  audio_file,    \* TRUE when temp_dir holds audio.mp3
  downloads,     \* URLs the downloader was invoked with, in order
  transcribed,   \* number of whisper_model.transcribe calls
  caption_error, \* the exception raised inside _get_official_captions' try block
  raised,        \* the step whose exception reached __main__'s handler
  file,          \* output/<video_id>.txt: [exists, content], absent at the start
  opened,        \* TRUE once save_to_file opened the output file
  exit_code      \* -1 while running

vars ==
  <<pc, youtube_url, video_id, available, selected, choice, prompts, retries,
    entries, fetched, transcript, segments, text, temp_dir, audio_file,
    downloads, transcribed, caption_error, raised, file, opened, exit_code>>

NoFile == [exists |-> FALSE, content |-> <<>>]

Init ==
  /\ pc = "main"
  /\ youtube_url \in Urls \cup {NoArg}
  /\ video_id = NoneStr
  /\ available = <<>>
  /\ selected = 0
  /\ choice = <<>>
  /\ prompts = 0
  /\ retries = 0
  /\ entries = <<>>
  /\ fetched = 0
  /\ transcript = NoneStr
  /\ segments = <<>>
  /\ text = NoneStr
  /\ temp_dir = "none"
  /\ audio_file = FALSE
  /\ downloads = <<>>
  /\ transcribed = 0
  /\ caption_error = "none"
  /\ raised = "none"
  /\ file = NoFile
  /\ opened = FALSE
  /\ exit_code = -1

\* ------------------------------------------------------ _extract_video_id
\* parse_qs(query): blank values are dropped (keep_blank_values is False)
ParseQsV(query) == SelectSeq(query, LAMBDA v : v # <<>>)

\* parse_qs(parsed_url.query).get("v", [None])[0]
FirstV(query) ==
  LET vs == ParseQsV(query) IN IF vs = <<>> THEN NoneStr ELSE Some(vs[1])

ParseError == [ok |-> FALSE, id |-> <<>>]
Parsed(id) == [ok |-> TRUE, id |-> id]

ExtractVideoIdAnyHost(url) ==
  IF url.hostname = "youtu.be"
  THEN LET v == LStripChar(url.path, "/")
       IN IF v = <<>> THEN ParseError ELSE Parsed(v)
  ELSE LET v == FirstV(url.query)
       IN IF ~Truthy(v) THEN ParseError ELSE Parsed(v.str)

ExtractVideoId(url) ==
  IF url.hostname \in {"www.youtube.com", "youtube.com"}
  THEN LET v == FirstV(url.query)
       IN IF ~Truthy(v) THEN ParseError ELSE Parsed(v.str)
  ELSE IF url.hostname = "youtu.be"
  THEN LET v == LStripChar(url.path, "/")
       IN IF v = <<>> THEN ParseError ELSE Parsed(v)
  ELSE ParseError

\* -------------------------------------- _get_official_captions: selection
IsEnglish(t) == StartsWith(t.language_code, <<"e", "n">>)

\* for t in available: if en and not generated: selected = t; break
RECURSIVE FirstManualEnglishFrom(_, _)
FirstManualEnglishFrom(avail, i) ==
  IF i > Len(avail) THEN 0
  ELSE IF IsEnglish(avail[i]) /\ ~avail[i].is_generated THEN i
  ELSE FirstManualEnglishFrom(avail, i + 1)

\* for t in available: if en: selected = t; break
RECURSIVE FirstEnglishFrom(_, _)
FirstEnglishFrom(avail, i) ==
  IF i > Len(avail) THEN 0
  ELSE IF IsEnglish(avail[i]) THEN i
  ELSE FirstEnglishFrom(avail, i + 1)

SelectEnglishAnyKind(avail) == FirstEnglishFrom(avail, 1)

SelectEnglish(avail) ==
  LET m == FirstManualEnglishFrom(avail, 1)
  IN IF m # 0 THEN m ELSE FirstEnglishFrom(avail, 1)

SingleTrackShortcutNever(avail, sel) == sel

\* if not selected and len(available) == 1: selected = available[0]
SingleTrackShortcut(avail, sel) ==
  IF sel = 0 /\ Len(avail) = 1 THEN 1 ELSE sel

\* choice.isdigit() and 1 <= int(choice) <= len(available); the conjunction is
\* evaluated left to right, so int() runs only on an isdigit() string
ChoiceRaises(c) == IsDigit(c) /\ IntRaises(c)
ChoiceValid(c, n) == IsDigit(c) /\ ~IntRaises(c) /\ 1 <= IntOf(c) /\ IntOf(c) <= n

CaughtOnlyNamed(kind) == kind \in {"TranscriptsDisabled", "NoTranscriptFound"}

\* the except clauses: TranscriptsDisabled, NoTranscriptFound, Exception
CaughtByCaptionStep(kind) ==
  kind \in {"TranscriptsDisabled", "NoTranscriptFound", "Exception",
            "EOFError", "ValueError", "FetchError"}

\* " ".join(entry["text"] for entry in transcript_data)
FlattenEntries(es) == Join(<<" ">>, es)

UseCaptionsNever(t) == FALSE

\* extract_text: if transcript:
UseCaptions(t) == Truthy(t)

\* ------------------------------------------------ _transcribe_via_whisper
\* transcript_text = ""; for segment in segments: transcript_text += text + " "
RECURSIVE Accumulate(_)
Accumulate(segs) ==
  IF segs = <<>> THEN <<>>
  ELSE Accumulate(SubSeq(segs, 1, Len(segs) - 1)) \o segs[Len(segs)] \o <<" ">>

WhisperTextUnstripped(segs) == Accumulate(segs)

WhisperText(segs) == Strip(Accumulate(segs))

AudioCheckNever(exists) == FALSE

\* if not os.path.exists(audio_path): raise FileNotFoundError
AudioCheckRaises(exists) == ~exists

EmptyResultAccepted(t) == FALSE

\* __main__: if not text: raise ValueError
IsEmptyResult(t) == ~Truthy(t)

\* ------------------------------------------------------------- the actions
Running == /\ exit_code' = exit_code /\ raised' = raised

\* except Exception as e: logger.exception(...); sys.exit(1)
Fatal(step) == /\ pc' = "Failed" /\ exit_code' = 1 /\ raised' = step

\* if len(sys.argv) < 2: sys.exit(1)
CheckArgs ==
  /\ pc = "main"
  /\ IF youtube_url = NoArg
     THEN /\ pc' = "Failed" /\ exit_code' = 1 /\ raised' = raised
     ELSE /\ pc' = "load" /\ Running
  /\ UNCHANGED <<youtube_url, video_id, available, selected, choice, prompts,
                 retries, entries, fetched, transcript, segments, text, temp_dir,
                 audio_file, downloads, transcribed, caption_error, file, opened>>

\* extractor = YouTubeTranscriptExtractor(whisper_model_size="base")
LoadWhisperModel ==
  /\ pc = "load"
  /\ \/ /\ pc' = "parse" /\ Running
     \/ Fatal("load")
  /\ UNCHANGED <<youtube_url, video_id, available, selected, choice, prompts,
                 retries, entries, fetched, transcript, segments, text, temp_dir,
                 audio_file, downloads, transcribed, caption_error, file, opened>>

\* video_id = extractor._extract_video_id(youtube_url)
MainExtractVideoId ==
  /\ pc = "parse"
  /\ LET r == ExtractVideoId(youtube_url)
     IN IF r.ok
        THEN /\ video_id' = Some(r.id) /\ pc' = "extract_text" /\ Running
        ELSE /\ video_id' = video_id /\ Fatal("parse")
  /\ UNCHANGED <<youtube_url, available, selected, choice, prompts, retries,
                 entries, fetched, transcript, segments, text, temp_dir,
                 audio_file, downloads, transcribed, caption_error, file, opened>>

\* extract_text: video_id = self._extract_video_id(youtube_url)
ExtractText ==
  /\ pc = "extract_text"
  /\ IF ExtractVideoId(youtube_url).ok
     THEN /\ pc' = "list" /\ Running
     ELSE Fatal("parse")
  /\ UNCHANGED <<youtube_url, video_id, available, selected, choice, prompts,
                 retries, entries, fetched, transcript, segments, text, temp_dir,
                 audio_file, downloads, transcribed, caption_error, file, opened>>

\* an exception of this kind inside _get_official_captions' try block
CaptionException(kind) ==
  IF CaughtByCaptionStep(kind)
  THEN /\ caption_error' = kind /\ transcript' = NoneStr
       /\ pc' = "check_transcript" /\ Running
  ELSE /\ caption_error' = kind /\ transcript' = transcript /\ Fatal("captions")

\* transcript_list = list_transcripts(video_id); collect; if not available
ListTranscripts ==
  /\ pc = "list"
  /\ \/ /\ \E kind \in {"TranscriptsDisabled", "NoTranscriptFound", "Exception"} :
             CaptionException(kind)
        /\ available' = available
     \/ \E tl \in TrackLists :
          /\ available' = tl
          /\ caption_error' = caption_error
          /\ IF tl = <<>>
             THEN /\ transcript' = NoneStr /\ pc' = "check_transcript"
             ELSE /\ transcript' = transcript /\ pc' = "select"
          /\ Running
  /\ UNCHANGED <<youtube_url, video_id, selected, choice, prompts, retries,
                 entries, fetched, segments, text, temp_dir, audio_file,
                 downloads, transcribed, file, opened>>

\* the English loops and the single-track shortcut
SelectTrack ==
  /\ pc = "select"
  /\ selected' = SingleTrackShortcut(available, SelectEnglish(available))
  /\ pc' = IF selected' = 0 THEN "prompt" ELSE "fetch"
  /\ Running
  /\ UNCHANGED <<youtube_url, video_id, available, choice, prompts, retries,
                 entries, fetched, transcript, segments, text, temp_dir,
                 audio_file, downloads, transcribed, caption_error, file, opened>>

\* one iteration of the while True loop
PromptUser ==
  /\ pc = "prompt"
  /\ prompts' = prompts + 1
  /\ \E line \in Inputs :
       IF line = EOF
       THEN /\ CaptionException("EOFError")
            /\ UNCHANGED <<choice, selected, retries>>
       ELSE /\ choice' = Strip(line)
            /\ IF ChoiceRaises(choice')
               THEN /\ CaptionException("ValueError")
                    /\ UNCHANGED <<selected, retries>>
               ELSE IF ChoiceValid(choice', Len(available))
               THEN /\ selected' = IntOf(choice')
                    /\ pc' = "fetch"
                    /\ Running
                    /\ UNCHANGED <<retries, caption_error, transcript>>
               ELSE /\ retries < MaxPrompts
                    /\ retries' = retries + 1
                    /\ pc' = "prompt"
                    /\ Running
                    /\ UNCHANGED <<selected, caption_error, transcript>>
  /\ UNCHANGED <<youtube_url, video_id, available, entries, fetched, segments,
                 text, temp_dir, audio_file, downloads, transcribed, file, opened>>

\* transcript_data = selected.fetch(); return " ".join(...); FetchError is
\* an exception of fetch() or of the join over entry["text"]
FetchTranscript ==
  /\ pc = "fetch"
  /\ fetched' = selected
  /\ \/ /\ CaptionException("FetchError")
        /\ entries' = entries
     \/ \E es \in EntryLists :
          /\ entries' = es
          /\ transcript' = Some(FlattenEntries(es))
          /\ caption_error' = caption_error
          /\ pc' = "check_transcript"
          /\ Running
  /\ UNCHANGED <<youtube_url, video_id, available, selected, choice, prompts,
                 retries, segments, text, temp_dir, audio_file, downloads,
                 transcribed, file, opened>>

\* extract_text: if transcript: return transcript; else fall back
CheckTranscript ==
  /\ pc = "check_transcript"
  /\ IF UseCaptions(transcript)
     THEN /\ text' = transcript /\ pc' = "check_text"
     ELSE /\ text' = text /\ pc' = "download"
  /\ Running
  /\ UNCHANGED <<youtube_url, video_id, available, selected, choice, prompts,
                 retries, entries, fetched, transcript, segments, temp_dir,
                 audio_file, downloads, transcribed, caption_error, file, opened>>

\* _download_audio: mkdtemp, ydl.download([youtube_url]), the existence check
DownloadAudio ==
  /\ pc = "download"
  /\ \/ /\ Fatal("download")      \* mkdtemp() raises
        /\ UNCHANGED <<temp_dir, downloads, audio_file>>
     \/ /\ temp_dir' = "exists"   \* ydl.download raises
        /\ downloads' = Append(downloads, youtube_url)
        /\ audio_file' = FALSE
        /\ Fatal("download")
     \/ /\ temp_dir' = "exists"   \* ydl.download returns
        /\ downloads' = Append(downloads, youtube_url)
        /\ audio_file' \in BOOLEAN
        /\ IF AudioCheckRaises(audio_file')
           THEN Fatal("download")
           ELSE /\ pc' = "transcribe" /\ Running
  /\ UNCHANGED <<youtube_url, video_id, available, selected, choice, prompts,
                 retries, entries, fetched, transcript, segments, text,
                 transcribed, caption_error, file, opened>>

\* whisper_model.transcribe(audio_file), the loop over segments, strip()
Transcribe ==
  /\ pc = "transcribe"
  /\ transcribed' = transcribed + 1
  /\ \/ /\ Fatal("transcribe")
        /\ UNCHANGED <<segments, text>>
     \/ /\ audio_file
        /\ \E segs \in SegmentLists :
             /\ segments' = segs
             /\ text' = Some(WhisperText(segs))
        /\ pc' = "check_text"
        /\ Running
  /\ UNCHANGED <<youtube_url, video_id, available, selected, choice, prompts,
                 retries, entries, fetched, transcript, temp_dir, audio_file,
                 downloads, caption_error, file, opened>>

\* __main__: if not text: raise ValueError(...)
CheckText ==
  /\ pc = "check_text"
  /\ IF IsEmptyResult(text)
     THEN Fatal("empty")
     ELSE /\ pc' = "save" /\ Running
  /\ UNCHANGED <<youtube_url, video_id, available, selected, choice, prompts,
                 retries, entries, fetched, transcript, segments, text, temp_dir,
                 audio_file, downloads, transcribed, caption_error, file, opened>>

\* save_to_file(video_id, text), then the script ends with status 0
SaveToFile ==
  /\ pc = "save"
  /\ \/ /\ Fatal("save")          \* makedirs() or open() raises
        /\ UNCHANGED <<file, opened>>
     \/ /\ opened' = TRUE         \* open() truncates, write() or close() raises
        /\ \E n \in 0..(Len(text.str) - 1) :
             file' = [exists |-> TRUE, content |-> SubSeq(text.str, 1, n)]
        /\ Fatal("save")
     \/ /\ opened' = TRUE
        /\ file' = [exists |-> TRUE, content |-> text.str]
        /\ pc' = "Persisted"
        /\ exit_code' = 0
        /\ raised' = raised
  /\ UNCHANGED <<youtube_url, video_id, available, selected, choice, prompts,
                 retries, entries, fetched, transcript, segments, text, temp_dir,
                 audio_file, downloads, transcribed, caption_error>>

Next ==
  \/ CheckArgs
  \/ LoadWhisperModel
  \/ MainExtractVideoId
  \/ ExtractText
  \/ ListTranscripts
  \/ SelectTrack
  \/ PromptUser
  \/ FetchTranscript
  \/ CheckTranscript
  \/ DownloadAudio
  \/ Transcribe
  \/ CheckText
  \/ SaveToFile

Spec == Init /\ [][Next]_vars

Terminal == pc \in {"Persisted", "Failed"}

\* =================================================================== claims
\* vocabulary of the properties, stated without the operators of the model

\* the language code starts with "en"
StartsWithEn(t) ==
  /\ Len(t.language_code) >= 2
  /\ t.language_code[1] = "e"
  /\ t.language_code[2] = "n"

ManualEnglishAt(i) == StartsWithEn(available[i]) /\ ~available[i].is_generated
EnglishAt(i) == StartsWithEn(available[i])
TrackIndices == 1..Len(available)

\* the selector has run on a non-empty track list
SelectorRan == available # <<>> /\ pc # "select"

\* parts joined in order by one space
SpaceJoined(parts) ==
  LET F[i \in 0..Len(parts)] ==
        IF i = 0 THEN <<>>
        ELSE IF i = 1 THEN parts[1]
        ELSE F[i - 1] \o <<" ">> \o parts[i]
  IN F[Len(parts)]

\* every part followed by one space
SpaceTerminated(parts) ==
  LET F[i \in 0..Len(parts)] ==
        IF i = 0 THEN <<>> ELSE F[i - 1] \o parts[i] \o <<" ">>
  IN F[Len(parts)]

\* s without its leading and trailing whitespace
Trimmed(s) ==
  LET ink == {i \in 1..Len(s) : s[i] \notin {" ", "\t"}}
  IN IF ink = {} THEN <<>>
     ELSE SubSeq(s, CHOOSE i \in ink : \A j \in ink : i <= j,
                    CHOOSE i \in ink : \A j \in ink : i >= j)

FallbackEntered ==
  \/ pc \in {"download", "transcribe"}
  \/ downloads # <<>>
  \/ transcribed > 0
  \/ temp_dir # "none"
  \/ raised \in {"download", "transcribe"}

\* the run is past extract_text's decision between captions and fallback
PastCaptionStep ==
  pc \in {"download", "transcribe", "check_text", "save", "Persisted"}
  \/ (pc = "Failed" /\ raised \in {"download", "transcribe", "empty", "save"})

\* C1: on a non-empty track list the selector picks the first manual English
\* track if there is one, otherwise the first English track if there is one.
C1_SelectorPriority ==
  SelectorRan =>
    /\ (\E i \in TrackIndices : ManualEnglishAt(i)) =>
         /\ selected \in TrackIndices
         /\ ManualEnglishAt(selected)
         /\ \A j \in 1..(selected - 1) : ~ManualEnglishAt(j)
    /\ ((\A i \in TrackIndices : ~ManualEnglishAt(i))
        /\ (\E i \in TrackIndices : EnglishAt(i))) =>
         /\ selected \in TrackIndices
         /\ EnglishAt(selected)
         /\ \A j \in 1..(selected - 1) : ~EnglishAt(j)

\* C1 witness: auto-generated English first, manual English second, the
\* second is selected
C1_Witness ==
  /\ pc = "fetch"
  /\ Len(available) = 2
  /\ EnglishAt(1) /\ available[1].is_generated
  /\ ManualEnglishAt(2)
  /\ selected = 2

\* C2 as stated: the fallback is entered only when no track was selected, and
\* a selected track's flattened text is the result with no fallback call.
C2_FallbackOnlyWithoutSelection ==
  /\ FallbackEntered => selected = 0
  /\ (selected # 0 /\ PastCaptionStep) =>
       /\ text = Some(SpaceJoined(entries))
       /\ downloads = <<>>
       /\ transcribed = 0

\* C2 amended: the fallback is entered only when no track was selected, or the
\* selected track's fetch raised, or its flattened text is empty; a selected
\* track fetched with a non-empty flattened text is the result, and neither
\* the downloader nor the speech-to-text engine is invoked.
C2_FallbackOnlyWithoutCaptionText ==
  /\ FallbackEntered =>
       \/ selected = 0
       \/ caption_error = "FetchError"
       \/ (fetched = selected /\ SpaceJoined(entries) = <<>>)
  /\ (selected # 0 /\ caption_error = "none" /\ PastCaptionStep
      /\ SpaceJoined(entries) # <<>>) =>
       /\ fetched = selected
       /\ text = Some(SpaceJoined(entries))
       /\ downloads = <<>>
       /\ transcribed = 0
       /\ temp_dir = "none"

\* C2 witness: a track was selected and fetched, its text is empty, and the
\* speech-to-text engine is about to run
C2_Witness ==
  /\ selected # 0
  /\ fetched = selected
  /\ caption_error = "none"
  /\ SpaceJoined(entries) = <<>>
  /\ pc = "transcribe"

\* C3: once audio was downloaded into temporary storage, that storage is
\* reclaimed by the time the run is in a terminal state.
C3_TempStorageReclaimed ==
  (Terminal /\ audio_file) => temp_dir # "exists"

\* a one-based index into the n listed tracks, written in decimal digits
ValidIndex(c, n) ==
  /\ c # <<>>
  /\ \A i \in 1..Len(c) : c[i] \in {"0", "1", "2", "3", "4", "5", "6", "7", "8", "9"}
  /\ \E k \in 1..n : IntOf(c) = k

\* C4: the prompt loop is left only on a valid one-based index k, with the
\* k-th track selected; every other line typed leaves the run in the loop.
C4_PromptLoopLeftOnlyOnValidIndex ==
  (prompts > 0 /\ pc # "prompt" /\ caption_error # "EOFError") =>
    /\ ValidIndex(choice, Len(available))
    /\ selected = IntOf(choice)

\* C5: the prompt is issued only for two or more tracks none of which is
\* English; an empty list, a single track and a list with an English track
\* are settled without prompting.
C5_PromptOnlyWhenAmbiguous ==
  /\ (prompts > 0 \/ pc = "prompt") =>
       /\ Len(available) >= 2
       /\ \A i \in TrackIndices : ~EnglishAt(i)
  /\ (available = <<>> /\ pc \notin {"main", "load", "parse", "extract_text", "list"}) =>
       /\ prompts = 0 /\ selected = 0 /\ fetched = 0
  /\ (SelectorRan /\ Len(available) = 1) => (selected = 1 /\ prompts = 0)
  /\ (SelectorRan /\ \E i \in TrackIndices : EnglishAt(i)) =>
       (selected # 0 /\ prompts = 0)

\* C5 witness: one non-English track, selected without a prompt
C5_Witness ==
  /\ pc = "fetch"
  /\ Len(available) = 1
  /\ ~EnglishAt(1)
  /\ selected = 1
  /\ prompts = 0

\* C6: when the captions query raises, nothing escapes the caption step and
\* the run goes on as for an empty list: no track, no prompt, no fetch, the
\* downloader called once with the original URL before the speech-to-text
\* engine, and the outcome is the fallback's.
C6_QueryErrorFallsBack ==
  caption_error \in {"TranscriptsDisabled", "NoTranscriptFound", "Exception"} =>
    /\ raised # "captions"
    /\ available = <<>> /\ selected = 0 /\ prompts = 0 /\ fetched = 0
    /\ transcript = NoneStr
    /\ pc \in {"check_transcript", "download", "transcribe", "check_text",
               "save", "Persisted", "Failed"}
    /\ transcribed > 0 => (downloads = <<youtube_url>> /\ audio_file)
    /\ ~text.none => (transcribed = 1 /\ text.str = Trimmed(SpaceTerminated(segments)))
    /\ pc = "Failed" => raised \in {"download", "transcribe", "empty", "save"}
    /\ pc = "check_text" => ~text.none

\* C6 witness: the query raised another exception and the run persisted the
\* speech-to-text result
C6_Witness ==
  /\ caption_error = "Exception"
  /\ pc = "Persisted"
  /\ transcribed = 1

Foo_ == <<"F", "o", "o", " ">>
bar_ == <<"b", "a", "r", " ">>

\* s without one trailing space, if it ends in one
OneTrailingSpaceTrimmed(s) ==
  IF s # <<>> /\ s[Len(s)] = " " THEN SubSeq(s, 1, Len(s) - 1) ELSE s

\* C7 as stated: the persisted fallback text is the segments' texts joined by
\* a single space with at most one trailing separator trimmed (the separator
\* after the last segment, or one more space at the end of the joined text);
\* "Foo " and "bar " give "Foo bar".
C7_JoinedWithOneSeparatorTrimmed ==
  (pc = "Persisted" /\ transcribed > 0) =>
    /\ file.content \in {SpaceJoined(segments),
                         OneTrailingSpaceTrimmed(SpaceJoined(segments))}
    /\ segments = <<Foo_, bar_>> => file.content = <<"F", "o", "o", " ", "b", "a", "r">>

\* C7 amended: the persisted fallback text is every segment's text followed
\* by one space, concatenated in order, with all leading and trailing
\* whitespace removed; "Foo " and "bar " give "Foo  bar".
C7_ConcatenatedThenStripped ==
  (pc = "Persisted" /\ transcribed > 0) =>
    /\ file.content = Trimmed(SpaceTerminated(segments))
    /\ segments = <<Foo_, bar_>> =>
         file.content = <<"F", "o", "o", " ", " ", "b", "a", "r">>

\* C7 witness: the segments "Foo " and "bar " persisted
C7_Witness ==
  /\ pc = "Persisted"
  /\ transcribed = 1
  /\ segments = <<Foo_, bar_>>
  /\ file.content = <<"F", "o", "o", " ", " ", "b", "a", "r">>

\* C8: the output file is written only for a non-empty text, Persisted and
\* exit code 0 go together, and an empty produced text ends in Failed with
\* exit code 1 and the file never opened.
C8_EmptyResultNeverWritten ==
  /\ opened => (~text.none /\ text.str # <<>>)
  /\ pc = "save" => (~text.none /\ text.str # <<>>)
  /\ pc = "Persisted" =>
       (exit_code = 0 /\ opened /\ file = [exists |-> TRUE, content |-> text.str])
  /\ exit_code = 0 => pc = "Persisted"
  /\ (text = Some(<<>>) /\ pc # "check_text") =>
       (pc = "Failed" /\ exit_code = 1 /\ ~opened /\ file = NoFile)

\* C8 witness: an empty text was produced and the run failed without opening
\* the output file
C8_Witness ==
  /\ text = Some(<<>>)
  /\ pc = "Failed"
  /\ raised = "empty"
  /\ exit_code = 1
  /\ file = NoFile

\* the URL's host is not a recognised one, or it carries no identifier
UnusableUrl(u) ==
  \/ u.hostname \notin {"youtube.com", "www.youtube.com", "youtu.be"}
  \/ /\ u.hostname \in {"youtube.com", "www.youtube.com"}
     /\ \A i \in 1..Len(u.query) : u.query[i] = <<>>
  \/ /\ u.hostname = "youtu.be"
     /\ \A i \in 1..Len(u.path) : u.path[i] = "/"

\* C9: a URL with an unrecognised host or without an identifier fails at the
\* parse step with exit code 1; the captions service, the downloader and the
\* transcription are never invoked and no file is written.
C9_UnusableUrlFailsAtParse ==
  (youtube_url # NoArg /\ UnusableUrl(youtube_url)) =>
    /\ pc \in {"main", "load", "parse", "Failed"}
    /\ pc = "Failed" => (exit_code = 1 /\ raised \in {"load", "parse"})
    /\ video_id = NoneStr
    /\ available = <<>> /\ caption_error = "none" /\ fetched = 0
    /\ downloads = <<>> /\ temp_dir = "none"
    /\ transcribed = 0
    /\ ~opened /\ file = NoFile

\* C9 witness: an unrecognised host failed at the parse step
C9_Witness ==
  /\ youtube_url.hostname = "vimeo.com"
  /\ pc = "Failed"
  /\ raised = "parse"
  /\ exit_code = 1

\* C10: a failed download (the audio file absent after the attempt included)
\* and a failed transcription end the run in Failed with exit code 1 and the
\* output file never opened.
C10_FallbackErrorsAreFatal ==
  /\ (downloads # <<>> /\ ~audio_file) =>
       (pc = "Failed" /\ exit_code = 1 /\ ~opened /\ file = NoFile)
  /\ raised \in {"download", "transcribe"} =>
       (pc = "Failed" /\ exit_code = 1 /\ ~opened /\ file = NoFile /\ text.none)
  /\ (transcribed > 0 /\ text.none /\ pc # "transcribe") =>
       (pc = "Failed" /\ exit_code = 1 /\ ~opened /\ file = NoFile)

\* C10 witness: the downloader ran, no audio file exists, the run failed
C10_Witness ==
  /\ downloads = <<youtube_url>>
  /\ ~audio_file
  /\ pc = "Failed"
  /\ raised = "download"

====
